---- MODULE Spec2Model ----
(***************************************************************************)
(* State reconciliation layer of the expense tracker: the settings surface  *)
(* (ExpenseSettingsComponent), the layout surface (LayoutComponent) and the *)
(* DatabaseService that talks to the path-addressed remote store.           *)
(***************************************************************************)
EXTENDS Naturals, Integers, Sequences, FiniteSets, Bags, TLC

VARIABLES
    \* UserService
    user, userId, userDetails,
    \* remote store: users/{uid}/{categories,types,filesImported,firstName,lastName}
    store,
    \* ExpenseSettingsComponent signals
    categoriesSignal, copyCategoriesSignal, sourceTypeSignal, sourceTypeSignalOriginal,
    isLoadingUserInformation, isLoadingUserCategories,
    isUpdatingCategories, isUpdatingSourceTypes,
    \* ExpenseDataService (shared canonical state)
    dataCategories, dataSources, dataFiles, dataExpenses, timeFrameFilter,
    \* DatabaseService.categoriesAdded$ : number of events fired so far, and the
    \* canonical categories a subscriber read when it received the last one
    categoriesAdded, categoriesSeen,
    \* MatSnackBar: the message last opened
    snack,
    \* promises in flight
    saves, loads, signOutPending,
    \* remaining user/UI initiated calls
    budget,
    \* remote store: users/{uid}/expenses/{key}, and the writes in flight against it
    expenses, writes, batchBudget,
    \* AngularFireAuth.currentUser, the legacy batch calls waiting for it, the last
    \* rejection of a batch call, and the number of push keys generated so far
    authUser, awaiting, batchError, pushed,
    \* getUserExpenses pipeline: the events of snapshotChanges() so far, those of the
    \* latest burst, the value debounceTime holds back, the time since the last event,
    \* the value distinctUntilChanged compares with, and the batches the subscriber
    \* received
    srcEvents, burst, debounced, sinceLast, prevEmitted, delivered

settingsVars == <<user, userId, userDetails, store,
                  categoriesSignal, copyCategoriesSignal, sourceTypeSignal,
                  sourceTypeSignalOriginal, isLoadingUserInformation,
                  isLoadingUserCategories, isUpdatingCategories, isUpdatingSourceTypes,
                  dataCategories, dataSources, dataFiles, dataExpenses, timeFrameFilter,
                  categoriesAdded, categoriesSeen, snack, saves, loads, signOutPending,
                  budget>>

batchVars == <<expenses, writes, batchBudget, authUser, awaiting, batchError, pushed>>
streamVars == <<srcEvents, burst, debounced, sinceLast, prevEmitted, delivered>>

vars == <<settingsVars, batchVars, streamVars>>

-----------------------------------------------------------------------------
(* Bounds *)
MaxCalls == 5
MaxLen == 2
MaxBatchCalls == 2
MaxEvents == 4
TickMs == 250
MaxLoads == 2
MaxPushed == 2
MaxRawLen == 2

-----------------------------------------------------------------------------
(* Values *)
Users == {"u1", "u2"}
NoUser == ""

defaultExpenseCategories == <<"Food">>
defaultExpenseTypes == <<"Cash">>
CategoryValues == {"Food", "Travel"}
TypeValues == {"Card"}

Range(s) == {s[i] : i \in 1..Len(s)}

\* raw snapshot values of the store
Str(s) == [type |-> "string", val |-> s]
Num == [type |-> "number", val |-> "42"]
Absent == [kind |-> "absent", items |-> <<>>]
Scalar == [kind |-> "scalar", items |-> <<>>]
Arr(items) == [kind |-> "array", items |-> items]
Obj(items) == [kind |-> "object", items |-> items]

StrItems(list) == [i \in 1..Len(list) |-> Str(list[i])]

\* ref(path).set(list): an empty list stores nothing, any other an array of strings
SetEncode(list) == IF list = <<>> THEN Absent ELSE Arr(StrItems(list))

IsNonEmptyString(e) == e.type = "string" /\ e.val # ""

FilterStrings(items) ==
    LET kept == SelectSeq(items, IsNonEmptyString)
    IN  [i \in 1..Len(kept) |-> kept[i].val]

\* variant: the object branch excludes arrays and there is no array branch
normalizeStringListObjectOnly(value) ==
    IF value.kind = "object" THEN FilterStrings(value.items) ELSE <<>>

normalizeStringList(value) ==
    IF value.kind = "array" THEN FilterStrings(value.items)
    ELSE IF value.kind = "object" THEN FilterStrings(value.items)
    ELSE <<>>

\* variant: the filter tests the type only, so empty strings are kept
layoutNormalizeStringListAnyString(value) ==
    IF value.kind \in {"array", "object"}
    THEN LET kept == SelectSeq(value.items, LAMBDA e : e.type = "string")
         IN  [i \in 1..Len(kept) |-> kept[i].val]
    ELSE <<>>

layoutNormalizeStringList(value) ==
    IF value.kind = "array" THEN FilterStrings(value.items)
    ELSE IF value.kind = "object" THEN FilterStrings(value.items)
    ELSE <<>>

includes(list, v) == v \in Range(list)

CategoryOptions(categoriesArr) ==
    [i \in 1..Len(categoriesArr) |->
        [value |-> categoriesArr[i],
         removable |-> ~includes(defaultExpenseCategories, categoriesArr[i])]]

\* the lower-case form of the values in use
ToLower(v) == IF v = "Food" THEN "food" ELSE IF v = "Cash" THEN "cash" ELSE v

\* variant: the membership test ignores case
SourceTypeOptionsIgnoreCase(sourceTypes) ==
    [i \in 1..Len(sourceTypes) |->
        [value |-> sourceTypes[i],
         removable |-> ToLower(sourceTypes[i]) \notin
                          {ToLower(d) : d \in Range(defaultExpenseTypes)}]]

SourceTypeOptions(sourceTypes) ==
    [i \in 1..Len(sourceTypes) |->
        [value |-> sourceTypes[i],
         removable |-> ~includes(defaultExpenseTypes, sourceTypes[i])]]

OptionValues(options) == [i \in 1..Len(options) |-> options[i].value]

\* variant: an empty list is kept as it is
OrDefaultNone(list, defaults) == list

\* list.length ? list : [...defaults]
OrDefault(list, defaults) == IF Len(list) > 0 THEN list ELSE defaults

\* this.userService.getUser()?.uid || this.userService.getUserId()
CurrentUid == IF user # NoUser THEN user ELSE userId

RemoveAt(s, i) == [j \in 1..(Len(s) - 1) |-> IF j < i THEN s[j] ELSE s[j + 1]]

One(x) == SetToBag({x})

-----------------------------------------------------------------------------
InitialStore ==
    [u \in Users |->
        IF u = "u1"
        THEN [categories |-> Arr(<<Str("Travel")>>),
              types |-> Absent,
              filesImported |-> Obj(<<Str("f1"), Str("")>>),
              firstName |-> "Ann", lastName |-> NoUser]
        ELSE [categories |-> Absent,
              types |-> Arr(<<Str("Card"), Num>>),
              filesImported |-> Absent,
              firstName |-> NoUser, lastName |-> NoUser]]

Keys == {"k1", "k2"}
Expenses == {"E1", "E2"}
Null == "null"

\* the keys ref.push() hands out, in the order it generates them
PushKeyNames == <<"-N1", "-N2", "-N3", "-N4">>
StoreKeys == Keys \cup Range(PushKeyNames)

InitialExpenses ==
    [u \in Users |->
        [k \in StoreKeys |-> IF u = "u1" /\ k = "k2" THEN "E2" ELSE Null]]

NoSnapshot == [categories |-> Absent, types |-> Absent, filesImported |-> Absent,
               firstName |-> NoUser, lastName |-> NoUser]

\* everything but the session, the store and the number of calls to come
InitRest ==
    /\ userId = NoUser
    /\ userDetails = [firstName |-> "", lastName |-> ""]
    /\ categoriesSignal = <<>>
    /\ copyCategoriesSignal = <<>>
    /\ sourceTypeSignal = <<>>
    /\ sourceTypeSignalOriginal = <<>>
    /\ isLoadingUserInformation = FALSE
    /\ isLoadingUserCategories = FALSE
    /\ isUpdatingCategories = FALSE
    /\ isUpdatingSourceTypes = FALSE
    /\ dataCategories = <<>>
    /\ dataSources = <<>>
    /\ dataFiles = <<>>
    /\ dataExpenses = <<>>
    /\ timeFrameFilter = "undefined"
    /\ categoriesAdded = 0
    /\ categoriesSeen = <<>>
    /\ snack = ""
    /\ saves = EmptyBag
    /\ loads = EmptyBag
    /\ signOutPending = FALSE
    /\ expenses = InitialExpenses
    /\ writes = EmptyBag
    /\ batchBudget = MaxBatchCalls
    /\ authUser = NoUser
    /\ awaiting = EmptyBag
    /\ batchError = ""
    /\ pushed = 0
    /\ srcEvents = <<>>
    /\ burst = <<>>
    /\ debounced = <<>>
    /\ sinceLast = 0
    /\ prevEmitted = <<>>
    /\ delivered = <<>>

Init ==
    /\ user = NoUser
    /\ store = InitialStore
    /\ budget = MaxCalls
    /\ InitRest

-----------------------------------------------------------------------------
(* Frames *)
userVars == <<user, userId, userDetails>>
signalVars == <<categoriesSignal, copyCategoriesSignal, sourceTypeSignal,
                sourceTypeSignalOriginal>>
loadingVars == <<isLoadingUserInformation, isLoadingUserCategories>>
updatingVars == <<isUpdatingCategories, isUpdatingSourceTypes>>
dataVars == <<dataCategories, dataSources, dataFiles, dataExpenses, timeFrameFilter>>
eventVars == <<categoriesAdded, categoriesSeen>>

Spend == budget > 0 /\ budget' = budget - 1

-----------------------------------------------------------------------------
(* Authentication collaborator and sign-out (LayoutComponent.logout) *)

Login(u) ==
    /\ Spend
    /\ user = NoUser
    /\ ~signOutPending
    /\ user' = u
    /\ UNCHANGED <<batchVars, streamVars>>
    /\ UNCHANGED <<userId, userDetails, store, signalVars, loadingVars, updatingVars,
                   dataVars, eventVars, snack, saves, loads, signOutPending>>

logout ==
    /\ Spend
    /\ user # NoUser
    /\ ~signOutPending
    /\ signOutPending' = TRUE
    /\ UNCHANGED <<batchVars, streamVars>>
    /\ UNCHANGED <<userVars, store, signalVars, loadingVars, updatingVars, dataVars,
                   eventVars, snack, saves, loads>>

logoutThen ==
    /\ signOutPending
    /\ signOutPending' = FALSE
    /\ user' = NoUser
    /\ dataExpenses' = <<>>
    /\ timeFrameFilter' = "undefined"
    /\ dataFiles' = <<>>
    /\ dataCategories' = defaultExpenseCategories
    /\ dataSources' = defaultExpenseTypes
    /\ UNCHANGED <<batchVars, streamVars>>
    /\ UNCHANGED <<userId, userDetails, store, signalVars, loadingVars, updatingVars,
                   eventVars, snack, saves, loads, budget>>

\* signOut() rejected: the promise has no rejection handler
logoutRejected ==
    /\ signOutPending
    /\ signOutPending' = FALSE
    /\ UNCHANGED <<batchVars, streamVars>>
    /\ UNCHANGED <<userVars, store, signalVars, loadingVars, updatingVars, dataVars,
                   eventVars, snack, saves, loads, budget>>

-----------------------------------------------------------------------------
(* Edits of the working copies (manage-options component) *)

AddCategory(v) ==
    /\ Spend
    /\ Len(categoriesSignal) < MaxLen
    /\ categoriesSignal' = Append(categoriesSignal,
            [value |-> v, removable |-> ~includes(defaultExpenseCategories, v)])
    /\ UNCHANGED <<batchVars, streamVars>>
    /\ UNCHANGED <<userVars, store, copyCategoriesSignal, sourceTypeSignal,
                   sourceTypeSignalOriginal, loadingVars, updatingVars, dataVars,
                   eventVars, snack, saves, loads, signOutPending>>

RemoveCategory(i) ==
    /\ Spend
    /\ i \in 1..Len(categoriesSignal)
    /\ categoriesSignal[i].removable
    /\ categoriesSignal' = RemoveAt(categoriesSignal, i)
    /\ UNCHANGED <<batchVars, streamVars>>
    /\ UNCHANGED <<userVars, store, copyCategoriesSignal, sourceTypeSignal,
                   sourceTypeSignalOriginal, loadingVars, updatingVars, dataVars,
                   eventVars, snack, saves, loads, signOutPending>>

AddSourceType(v) ==
    /\ Spend
    /\ Len(sourceTypeSignal) < MaxLen
    /\ sourceTypeSignal' = Append(sourceTypeSignal,
            [value |-> v, removable |-> ~includes(defaultExpenseTypes, v)])
    /\ UNCHANGED <<batchVars, streamVars>>
    /\ UNCHANGED <<userVars, store, categoriesSignal, copyCategoriesSignal,
                   sourceTypeSignalOriginal, loadingVars, updatingVars, dataVars,
                   eventVars, snack, saves, loads, signOutPending>>

-----------------------------------------------------------------------------
(* The store: one write or read per request, accepted or rejected *)

\* a pending ref(`users/${uid}/${path}`).set(list), tagged with the caller awaiting it
SetRequest(op, path, uid, list) ==
    [op |-> op, path |-> path, uid |-> uid, list |-> list, phase |-> "sent"]

\* variant: the categories list is written under the types path
saveNewCategoriesTypesPath(categories, userId_) ==
    SetRequest("saveCategories", "types", userId_, categories)

\* DatabaseService.saveNewCategories
saveNewCategories(categories, userId_) ==
    SetRequest("saveCategories", "categories", userId_, categories)

\* DatabaseService.saveNewExpenseSourceTypes
saveNewExpenseSourceTypes(types, userId_) ==
    SetRequest("saveTypes", "types", userId_, types)

\* DatabaseService.getUserDetailsById
getUserDetailsById(surface, userId_) ==
    [surface |-> surface, uid |-> userId_, phase |-> "sent", snap |-> NoSnapshot]

StoreAfterSet(st, w) == [st EXCEPT ![w.uid][w.path] = SetEncode(w.list)]

StoreSet(w) ==
    /\ BagIn(w, saves)
    /\ w.phase = "sent"
    /\ store' = StoreAfterSet(store, w)
    /\ saves' = (saves (-) One(w)) (+) One([w EXCEPT !.phase = "ok"])
    /\ UNCHANGED <<batchVars, streamVars>>
    /\ UNCHANGED <<userVars, signalVars, loadingVars, updatingVars, dataVars,
                   eventVars, snack, loads, signOutPending, budget>>

StoreSetRejected(w) ==
    /\ BagIn(w, saves)
    /\ w.phase = "sent"
    /\ saves' = (saves (-) One(w)) (+) One([w EXCEPT !.phase = "err"])
    /\ UNCHANGED <<batchVars, streamVars>>
    /\ UNCHANGED <<userVars, store, signalVars, loadingVars, updatingVars, dataVars,
                   eventVars, snack, loads, signOutPending, budget>>

StoreRead(r) ==
    /\ BagIn(r, loads)
    /\ r.phase = "sent"
    /\ loads' = (loads (-) One(r)) (+) One([r EXCEPT !.phase = "ok", !.snap = store[r.uid]])
    /\ UNCHANGED <<batchVars, streamVars>>
    /\ UNCHANGED <<userVars, store, signalVars, loadingVars, updatingVars, dataVars,
                   eventVars, snack, saves, signOutPending, budget>>

StoreReadRejected(r) ==
    /\ BagIn(r, loads)
    /\ r.phase = "sent"
    /\ loads' = (loads (-) One(r)) (+) One([r EXCEPT !.phase = "err"])
    /\ UNCHANGED <<batchVars, streamVars>>
    /\ UNCHANGED <<userVars, store, signalVars, loadingVars, updatingVars, dataVars,
                   eventVars, snack, saves, signOutPending, budget>>

-----------------------------------------------------------------------------
(* ExpenseSettingsComponent.saveCategories *)

\* variant: the early return leaves the is-saving flag set
saveCategoriesMissingUserKeepsFlag ==
    /\ Spend
    /\ CurrentUid = NoUser
    /\ snack' = "No user id found."
    /\ isUpdatingCategories' = TRUE
    /\ UNCHANGED <<batchVars, streamVars>>
    /\ UNCHANGED <<userVars, store, signalVars, loadingVars, isUpdatingSourceTypes,
                   dataVars, eventVars, saves, loads, signOutPending>>

saveCategoriesMissingUser ==
    /\ Spend
    /\ CurrentUid = NoUser
    /\ snack' = "No user id found."
    /\ isUpdatingCategories' = FALSE
    /\ UNCHANGED <<batchVars, streamVars>>
    /\ UNCHANGED <<userVars, store, signalVars, loadingVars, isUpdatingSourceTypes,
                   dataVars, eventVars, saves, loads, signOutPending>>

saveCategoriesIssue ==
    /\ Spend
    /\ CurrentUid # NoUser
    /\ isUpdatingCategories' = TRUE
    /\ saves' = saves (+) One(saveNewCategories(OptionValues(categoriesSignal), CurrentUid))
    /\ UNCHANGED <<batchVars, streamVars>>
    /\ UNCHANGED <<userVars, store, signalVars, loadingVars, isUpdatingSourceTypes,
                   dataVars, eventVars, snack, loads, signOutPending>>

saveCategoriesThen(w) ==
    /\ BagIn(w, saves)
    /\ w.op = "saveCategories" /\ w.phase = "ok"
    /\ saves' = saves (-) One(w)
    /\ dataCategories' = OptionValues(categoriesSignal)
    /\ copyCategoriesSignal' = categoriesSignal
    /\ snack' = "Categories saved!"
    \* onUpdateToCategories, after the commit: a subscriber reads the new list
    /\ categoriesAdded' = categoriesAdded + 1
    /\ categoriesSeen' = dataCategories'
    /\ isUpdatingCategories' = FALSE
    /\ UNCHANGED <<batchVars, streamVars>>
    /\ UNCHANGED <<userVars, store, categoriesSignal, sourceTypeSignal,
                   sourceTypeSignalOriginal, loadingVars, isUpdatingSourceTypes,
                   dataSources, dataFiles, dataExpenses, timeFrameFilter,
                   loads, signOutPending, budget>>

\* variant: the rejection handler rolls the working copy back to the committed one
saveCategoriesCatchRevert(w) ==
    /\ BagIn(w, saves)
    /\ w.op = "saveCategories" /\ w.phase = "err"
    /\ saves' = saves (-) One(w)
    /\ snack' = "write rejected"
    /\ isUpdatingCategories' = FALSE
    /\ categoriesSignal' = copyCategoriesSignal
    /\ UNCHANGED <<batchVars, streamVars>>
    /\ UNCHANGED <<userVars, store, copyCategoriesSignal, sourceTypeSignal,
                   sourceTypeSignalOriginal, loadingVars, isUpdatingSourceTypes,
                   dataVars, eventVars, loads, signOutPending, budget>>

saveCategoriesCatch(w) ==
    /\ BagIn(w, saves)
    /\ w.op = "saveCategories" /\ w.phase = "err"
    /\ saves' = saves (-) One(w)
    /\ snack' = "write rejected"
    /\ isUpdatingCategories' = FALSE
    /\ UNCHANGED <<batchVars, streamVars>>
    /\ UNCHANGED <<userVars, store, signalVars, loadingVars, isUpdatingSourceTypes,
                   dataVars, eventVars, loads, signOutPending, budget>>

(* ExpenseSettingsComponent.saveTypes *)

saveTypesMissingUser ==
    /\ Spend
    /\ CurrentUid = NoUser
    /\ snack' = "No user id found."
    /\ isUpdatingSourceTypes' = FALSE
    /\ UNCHANGED <<batchVars, streamVars>>
    /\ UNCHANGED <<userVars, store, signalVars, loadingVars, isUpdatingCategories,
                   dataVars, eventVars, saves, loads, signOutPending>>

saveTypesIssue ==
    /\ Spend
    /\ CurrentUid # NoUser
    /\ isUpdatingSourceTypes' = TRUE
    /\ saves' = saves (+)
            One(saveNewExpenseSourceTypes(OptionValues(sourceTypeSignal), CurrentUid))
    /\ UNCHANGED <<batchVars, streamVars>>
    /\ UNCHANGED <<userVars, store, signalVars, loadingVars, isUpdatingCategories,
                   dataVars, eventVars, snack, loads, signOutPending>>

\* variant: the success handler also announces on the categories channel
saveTypesThenAnnounce(w) ==
    /\ BagIn(w, saves)
    /\ w.op = "saveTypes" /\ w.phase = "ok"
    /\ saves' = saves (-) One(w)
    /\ sourceTypeSignalOriginal' = sourceTypeSignal
    /\ dataSources' = OptionValues(sourceTypeSignal)
    /\ snack' = "Expense Source Types saved!"
    /\ categoriesAdded' = categoriesAdded + 1
    /\ categoriesSeen' = dataCategories
    /\ isUpdatingSourceTypes' = FALSE
    /\ UNCHANGED <<batchVars, streamVars>>
    /\ UNCHANGED <<userVars, store, categoriesSignal, copyCategoriesSignal,
                   sourceTypeSignal, loadingVars, isUpdatingCategories,
                   dataCategories, dataFiles, dataExpenses, timeFrameFilter,
                   loads, signOutPending, budget>>

saveTypesThen(w) ==
    /\ BagIn(w, saves)
    /\ w.op = "saveTypes" /\ w.phase = "ok"
    /\ saves' = saves (-) One(w)
    /\ sourceTypeSignalOriginal' = sourceTypeSignal
    /\ dataSources' = OptionValues(sourceTypeSignal)
    /\ snack' = "Expense Source Types saved!"
    /\ isUpdatingSourceTypes' = FALSE
    /\ UNCHANGED <<batchVars, streamVars>>
    /\ UNCHANGED <<userVars, store, categoriesSignal, copyCategoriesSignal,
                   sourceTypeSignal, loadingVars, isUpdatingCategories,
                   dataCategories, dataFiles, dataExpenses, timeFrameFilter,
                   eventVars, loads, signOutPending, budget>>

saveTypesCatch(w) ==
    /\ BagIn(w, saves)
    /\ w.op = "saveTypes" /\ w.phase = "err"
    /\ saves' = saves (-) One(w)
    /\ snack' = "write rejected"
    /\ isUpdatingSourceTypes' = FALSE
    /\ UNCHANGED <<batchVars, streamVars>>
    /\ UNCHANGED <<userVars, store, signalVars, loadingVars, isUpdatingCategories,
                   dataVars, eventVars, loads, signOutPending, budget>>

-----------------------------------------------------------------------------
(* ExpenseSettingsComponent.getAllUserDetails *)

settingsGetAllUserDetails ==
    /\ Spend
    /\ CurrentUid # NoUser
    /\ isLoadingUserInformation' = TRUE
    /\ isLoadingUserCategories' = TRUE
    /\ loads' = loads (+) One(getUserDetailsById("settings", CurrentUid))
    /\ UNCHANGED <<batchVars, streamVars>>
    /\ UNCHANGED <<userVars, store, signalVars, updatingVars, dataVars,
                   eventVars, snack, saves, signOutPending>>

settingsLoadThen(r) ==
    /\ BagIn(r, loads)
    /\ r.surface = "settings" /\ r.phase = "ok"
    /\ loads' = loads (-) One(r)
    /\ userId' = r.uid
    /\ LET categoriesList == normalizeStringList(r.snap.categories)
           sourceTypesList == normalizeStringList(r.snap.types)
           categoriesArr == OrDefault(categoriesList, defaultExpenseCategories)
           sourceTypes == OrDefault(sourceTypesList, defaultExpenseTypes)
       IN  \* setCategoriesOptions
           /\ categoriesSignal' = CategoryOptions(categoriesArr)
           /\ copyCategoriesSignal' = CategoryOptions(categoriesArr)
           /\ dataCategories' = categoriesArr
           /\ categoriesAdded' = categoriesAdded + 1
           /\ categoriesSeen' = categoriesArr
           \* setSourceTypeOptions
           /\ sourceTypeSignal' = SourceTypeOptions(sourceTypes)
           /\ sourceTypeSignalOriginal' = SourceTypeOptions(sourceTypes)
    /\ isLoadingUserInformation' = FALSE
    /\ isLoadingUserCategories' = FALSE
    /\ UNCHANGED <<batchVars, streamVars>>
    /\ UNCHANGED <<user, userDetails, store, updatingVars, dataSources, dataFiles,
                   dataExpenses, timeFrameFilter, snack, saves, signOutPending, budget>>

\* variant: the rejection handler falls back to the default lists
settingsLoadCatchDefaults(r) ==
    /\ BagIn(r, loads)
    /\ r.surface = "settings" /\ r.phase = "err"
    /\ loads' = loads (-) One(r)
    /\ isLoadingUserInformation' = FALSE
    /\ isLoadingUserCategories' = FALSE
    /\ snack' = "Error! read rejected."
    /\ categoriesSignal' = CategoryOptions(defaultExpenseCategories)
    /\ copyCategoriesSignal' = CategoryOptions(defaultExpenseCategories)
    /\ dataCategories' = defaultExpenseCategories
    /\ UNCHANGED <<batchVars, streamVars>>
    /\ UNCHANGED <<userVars, store, sourceTypeSignal, sourceTypeSignalOriginal,
                   updatingVars, dataSources, dataFiles, dataExpenses, timeFrameFilter,
                   eventVars, saves, signOutPending, budget>>

settingsLoadCatch(r) ==
    /\ BagIn(r, loads)
    /\ r.surface = "settings" /\ r.phase = "err"
    /\ loads' = loads (-) One(r)
    /\ isLoadingUserInformation' = FALSE
    /\ isLoadingUserCategories' = FALSE
    /\ snack' = "Error! read rejected."
    /\ UNCHANGED <<batchVars, streamVars>>
    /\ UNCHANGED <<userVars, store, signalVars, updatingVars, dataVars,
                   eventVars, saves, signOutPending, budget>>

(* LayoutComponent.getAllUserDetails *)

layoutGetAllUserDetails ==
    /\ Spend
    /\ CurrentUid # NoUser
    /\ loads' = loads (+) One(getUserDetailsById("layout", CurrentUid))
    /\ UNCHANGED <<batchVars, streamVars>>
    /\ UNCHANGED <<userVars, store, signalVars, loadingVars, updatingVars, dataVars,
                   eventVars, snack, saves, signOutPending>>

\* variant: the imported files read are added to the ones already held
layoutLoadThenMerge(r) ==
    /\ BagIn(r, loads)
    /\ r.surface = "layout" /\ r.phase = "ok"
    /\ loads' = loads (-) One(r)
    /\ userId' = r.uid
    /\ userDetails' = [firstName |-> r.snap.firstName, lastName |-> r.snap.lastName]
    /\ LET categoriesList == layoutNormalizeStringList(r.snap.categories)
           sourceTypesList == layoutNormalizeStringList(r.snap.types)
           filesImported == layoutNormalizeStringList(r.snap.filesImported)
       IN  /\ dataCategories' = OrDefault(categoriesList, defaultExpenseCategories)
           /\ dataSources' = OrDefault(sourceTypesList, defaultExpenseTypes)
           /\ dataFiles' = dataFiles \o filesImported
    /\ UNCHANGED <<batchVars, streamVars>>
    /\ UNCHANGED <<user, store, signalVars, loadingVars, updatingVars, dataExpenses,
                   timeFrameFilter, eventVars, snack, saves, signOutPending, budget>>

layoutLoadThen(r) ==
    /\ BagIn(r, loads)
    /\ r.surface = "layout" /\ r.phase = "ok"
    /\ loads' = loads (-) One(r)
    /\ userId' = r.uid
    /\ userDetails' = [firstName |-> r.snap.firstName, lastName |-> r.snap.lastName]
    /\ LET categoriesList == layoutNormalizeStringList(r.snap.categories)
           sourceTypesList == layoutNormalizeStringList(r.snap.types)
           filesImported == layoutNormalizeStringList(r.snap.filesImported)
       IN  /\ dataCategories' = OrDefault(categoriesList, defaultExpenseCategories)
           /\ dataSources' = OrDefault(sourceTypesList, defaultExpenseTypes)
           /\ dataFiles' = filesImported
    /\ UNCHANGED <<batchVars, streamVars>>
    /\ UNCHANGED <<user, store, signalVars, loadingVars, updatingVars, dataExpenses,
                   timeFrameFilter, eventVars, snack, saves, signOutPending, budget>>

layoutLoadCatch(r) ==
    /\ BagIn(r, loads)
    /\ r.surface = "layout" /\ r.phase = "err"
    /\ loads' = loads (-) One(r)
    /\ snack' = "Failed to load user details: read rejected"
    /\ UNCHANGED <<batchVars, streamVars>>
    /\ UNCHANGED <<userVars, store, signalVars, loadingVars, updatingVars, dataVars,
                   eventVars, saves, signOutPending, budget>>

-----------------------------------------------------------------------------
Next ==
    \/ \E u \in Users : Login(u)
    \/ logout
    \/ logoutThen
    \/ logoutRejected
    \/ \E v \in CategoryValues : AddCategory(v)
    \/ \E i \in 1..MaxLen : RemoveCategory(i)
    \/ \E v \in TypeValues : AddSourceType(v)
    \/ \E w \in BagToSet(saves) : StoreSet(w)
    \/ \E w \in BagToSet(saves) : StoreSetRejected(w)
    \/ \E r \in BagToSet(loads) : StoreRead(r)
    \/ \E r \in BagToSet(loads) : StoreReadRejected(r)
    \/ saveCategoriesMissingUser
    \/ saveCategoriesIssue
    \/ \E w \in BagToSet(saves) : saveCategoriesThen(w)
    \/ \E w \in BagToSet(saves) : saveCategoriesCatch(w)
    \/ saveTypesMissingUser
    \/ saveTypesIssue
    \/ \E w \in BagToSet(saves) : saveTypesThen(w)
    \/ \E w \in BagToSet(saves) : saveTypesCatch(w)
    \/ settingsGetAllUserDetails
    \/ \E r \in BagToSet(loads) : settingsLoadThen(r)
    \/ \E r \in BagToSet(loads) : settingsLoadCatch(r)
    \/ layoutGetAllUserDetails
    \/ \E r \in BagToSet(loads) : layoutLoadThen(r)
    \/ \E r \in BagToSet(loads) : layoutLoadCatch(r)

Spec == Init /\ [][Next]_vars

-----------------------------------------------------------------------------
(* Loads of a signed-in user over every shape the store can hold *)

RawElements == {Str("Food"), Str("Travel"), Str(""), Num}

RawItems == UNION {[1..n -> RawElements] : n \in 0..MaxRawLen}

\* what snapshot.val() can be at users/{uid}/categories
RawValues == {Absent, Scalar} \cup {Arr(s) : s \in RawItems} \cup {Obj(s) : s \in RawItems}

RawTypes == {Absent, Scalar, Arr(<<Str("Card"), Num>>), Arr(<<Str("cash"), Str("Cash")>>)}
RawFiles == {Absent, Arr(<<Str("")>>), Obj(<<Str("f1"), Str("")>>)}

InitLoad ==
    /\ user = "u1"
    /\ \E c \in RawValues : \E t \in RawTypes : \E f \in RawFiles :
           store = [InitialStore EXCEPT !["u1"].categories = c,
                                        !["u1"].types = t,
                                        !["u1"].filesImported = f]
    /\ budget = MaxLoads
    /\ InitRest

NextLoad ==
    \/ \E v \in CategoryValues : AddCategory(v)
    \/ \E r \in BagToSet(loads) : StoreRead(r)
    \/ \E r \in BagToSet(loads) : StoreReadRejected(r)
    \/ settingsGetAllUserDetails
    \/ \E r \in BagToSet(loads) : settingsLoadThen(r)
    \/ \E r \in BagToSet(loads) : settingsLoadCatch(r)
    \/ layoutGetAllUserDetails
    \/ \E r \in BagToSet(loads) : layoutLoadThen(r)
    \/ \E r \in BagToSet(loads) : layoutLoadCatch(r)

SpecLoad == InitLoad /\ [][NextLoad]_vars

-----------------------------------------------------------------------------
(* One session of a signed-in user: edits, loads and saves, no sign-out *)

InitSession ==
    /\ user \in Users
    /\ store = InitialStore
    /\ budget = MaxCalls
    /\ InitRest

NextSession ==
    \/ \E v \in CategoryValues : AddCategory(v)
    \/ \E i \in 1..MaxLen : RemoveCategory(i)
    \/ \E v \in TypeValues : AddSourceType(v)
    \/ \E w \in BagToSet(saves) : StoreSet(w)
    \/ \E w \in BagToSet(saves) : StoreSetRejected(w)
    \/ \E r \in BagToSet(loads) : StoreRead(r)
    \/ \E r \in BagToSet(loads) : StoreReadRejected(r)
    \/ saveCategoriesIssue
    \/ \E w \in BagToSet(saves) : saveCategoriesThen(w)
    \/ \E w \in BagToSet(saves) : saveCategoriesCatch(w)
    \/ saveTypesIssue
    \/ \E w \in BagToSet(saves) : saveTypesThen(w)
    \/ \E w \in BagToSet(saves) : saveTypesCatch(w)
    \/ settingsGetAllUserDetails
    \/ \E r \in BagToSet(loads) : settingsLoadThen(r)
    \/ \E r \in BagToSet(loads) : settingsLoadCatch(r)
    \/ layoutGetAllUserDetails
    \/ \E r \in BagToSet(loads) : layoutLoadThen(r)
    \/ \E r \in BagToSet(loads) : layoutLoadCatch(r)

SpecSession == InitSession /\ [][NextSession]_vars

-----------------------------------------------------------------------------
(* DatabaseService: writes to users/{uid}/expenses *)

UpdateMaps == UNION {[D -> Expenses \cup {Null}] : D \in SUBSET Keys}

\* scoped[`users/${uid}/expenses/${k}`] = updates[k]
Scoped(uid, updates) ==
    [p \in {<<uid, k>> : k \in DOMAIN updates} |-> updates[p[2]]]

\* a pending ref().update(scoped), tagged with the call that sent it
UpdateRequest(op, uid, updates, scoped) ==
    [op |-> op, uid |-> uid, updates |-> updates, scoped |-> scoped]

\* variant: one update per key instead of one multi-path update
batchUpdateExpensesPerKey(uid, updates) ==
    {UpdateRequest("batchUpdateExpenses", uid, updates,
                   Scoped(uid, [k \in {key} |-> updates[k]])) : key \in DOMAIN updates}

\* the store requests sent by batchUpdateExpenses(userId, updates)
batchUpdateExpenses(uid, updates) ==
    {UpdateRequest("batchUpdateExpenses", uid, updates, Scoped(uid, updates))}

\* the store request sent by deleteExpense(userId, key)
deleteExpense(uid, key) ==
    {UpdateRequest("deleteExpense", uid, [k \in {key} |-> Null],
                   Scoped(uid, [k \in {key} |-> Null]))}

\* the store's multi-path update: every listed path is written, or none
StoreAfterUpdate(exp, scoped) ==
    [u \in Users |->
        [k \in StoreKeys |->
            IF <<u, k>> \in DOMAIN scoped THEN scoped[<<u, k>>] ELSE exp[u][k]]]

SpendBatch == batchBudget > 0 /\ batchBudget' = batchBudget - 1

authVars == <<authUser, awaiting, batchError>>

\* the identity provider signs a user in or out
signInAuth(u) ==
    /\ authUser = NoUser
    /\ authUser' = u
    /\ UNCHANGED <<settingsVars, streamVars, expenses, writes, batchBudget, awaiting,
                   batchError, pushed>>

signOutAuth ==
    /\ authUser # NoUser
    /\ authUser' = NoUser
    /\ UNCHANGED <<settingsVars, streamVars, expenses, writes, batchBudget, awaiting,
                   batchError, pushed>>

batchUpdateExpensesCall(uid, updates) ==
    /\ SpendBatch
    /\ writes' = writes (+) SetToBag(batchUpdateExpenses(uid, updates))
    /\ UNCHANGED <<settingsVars, streamVars, expenses, authVars, pushed>>

\* the updates given to the legacy form: no key, or every key
LegacyUpdateMaps == {m \in UpdateMaps : DOMAIN m \in {{}, Keys}}

\* batchUpdateExpenses(updates), the legacy form: it waits for afAuth.currentUser
batchUpdateExpensesLegacyCall(updates) ==
    /\ SpendBatch
    /\ awaiting' = awaiting (+) One(updates)
    /\ UNCHANGED <<settingsVars, streamVars, expenses, writes, authUser, batchError,
                   pushed>>

\* variant: the uid of the current user is used without the check
batchUpdateExpensesLegacyResumeUnchecked(updates) ==
    /\ BagIn(updates, awaiting)
    /\ awaiting' = awaiting (-) One(updates)
    /\ writes' = writes (+) SetToBag(batchUpdateExpenses(authUser, updates))
    /\ UNCHANGED batchError
    /\ UNCHANGED <<settingsVars, streamVars, expenses, batchBudget, authUser, pushed>>

\* currentUser has resolved: throw when nobody is signed in, else send under user.uid
batchUpdateExpensesLegacyResume(updates) ==
    /\ BagIn(updates, awaiting)
    /\ awaiting' = awaiting (-) One(updates)
    /\ IF authUser = NoUser
       THEN /\ batchError' = "Not signed in"
            /\ UNCHANGED writes
       ELSE /\ writes' = writes (+) SetToBag(batchUpdateExpenses(authUser, updates))
            /\ UNCHANGED batchError
    /\ UNCHANGED <<settingsVars, streamVars, expenses, batchBudget, authUser, pushed>>

PushInputs == UNION {[1..n -> Expenses] : n \in 0..MaxPushed}

\* variant: one key is generated before the loop and used for every expense
batchPushExpensesWithBatchOneKey(exps, userId_) ==
    LET newKey == PushKeyNames[pushed + 1]
        updates == [k \in (IF exps = <<>> THEN {} ELSE {newKey}) |-> exps[Len(exps)]]
    IN  {UpdateRequest("batchPushExpensesWithBatch", userId_, updates,
                       Scoped(userId_, updates))}

\* the store request sent by batchPushExpensesWithBatch(expenses, userId): every
\* expense goes under the key of its own baseRef.push()
batchPushExpensesWithBatch(exps, userId_) ==
    LET newKey(i) == PushKeyNames[pushed + i]
        updates == [k \in {newKey(i) : i \in 1..Len(exps)} |->
                        exps[CHOOSE i \in 1..Len(exps) : newKey(i) = k]]
    IN  {UpdateRequest("batchPushExpensesWithBatch", userId_, updates,
                       Scoped(userId_, updates))}

batchPushExpensesWithBatchCall(exps, userId_) ==
    /\ SpendBatch
    /\ pushed + Len(exps) <= MaxPushed
    /\ writes' = writes (+) SetToBag(batchPushExpensesWithBatch(exps, userId_))
    /\ pushed' = pushed + Len(exps)
    /\ UNCHANGED <<settingsVars, streamVars, expenses, authVars>>

deleteExpenseCall(uid, key) ==
    /\ SpendBatch
    /\ writes' = writes (+) SetToBag(deleteExpense(uid, key))
    /\ UNCHANGED <<settingsVars, streamVars, expenses, authVars, pushed>>

StoreUpdate(req) ==
    /\ BagIn(req, writes)
    /\ writes' = writes (-) One(req)
    /\ expenses' = StoreAfterUpdate(expenses, req.scoped)
    /\ UNCHANGED <<settingsVars, streamVars, batchBudget, authVars, pushed>>

StoreUpdateRejected(req) ==
    /\ BagIn(req, writes)
    /\ writes' = writes (-) One(req)
    /\ UNCHANGED <<settingsVars, streamVars, expenses, batchBudget, authVars, pushed>>

NextBatch ==
    \/ \E u \in Users : signInAuth(u)
    \/ signOutAuth
    \/ \E u \in Users : \E m \in UpdateMaps : batchUpdateExpensesCall(u, m)
    \/ \E m \in LegacyUpdateMaps : batchUpdateExpensesLegacyCall(m)
    \/ \E m \in BagToSet(awaiting) : batchUpdateExpensesLegacyResume(m)
    \/ \E u \in Users : \E exps \in PushInputs : batchPushExpensesWithBatchCall(exps, u)
    \/ \E u \in Users : \E k \in Keys : deleteExpenseCall(u, k)
    \/ \E req \in BagToSet(writes) : StoreUpdate(req)
    \/ \E req \in BagToSet(writes) : StoreUpdateRejected(req)

SpecBatch == Init /\ [][NextBatch]_vars

-----------------------------------------------------------------------------
(* DatabaseService.getUserExpenses: snapshotChanges() | debounceTime | distinctUntilChanged *)

DebounceMs == 500

Action(type, key, val) == [type |-> type, key |-> key, val |-> val]

\* the SnapshotAction[] arrays the list can emit
Batches ==
    { <<>>,
      <<Action("value", "k1", "E1")>>,
      <<Action("value", "k1", "E2")>>,
      <<Action("value", "k1", "E1"), Action("value", "k2", "E2")>> }

\* JSON.stringify of a SnapshotAction[]: payload, type and key of each action, in order
Stringify(batch) == [i \in 1..Len(batch) |-> <<batch[i].val, batch[i].type, batch[i].key>>]

\* variant: the comparison looks at the keys only
SameSerializedKeys(prev, curr) ==
    [i \in 1..Len(prev) |-> prev[i].key] = [i \in 1..Len(curr) |-> curr[i].key]

\* variant: the comparator never reports two batches as equal
SameSerializedNever(prev, curr) == FALSE

\* the comparator given to distinctUntilChanged
SameSerialized(prev, curr) == Stringify(prev) = Stringify(curr)

\* variant: no quiet window, the held value is passed on at once
DebounceDueAtOnce == debounced # <<>>

\* debounceTime(500): the held value is due once 500 have passed without an event
DebounceDue == debounced # <<>> /\ sinceLast >= DebounceMs

Min(a, b) == IF a < b THEN a ELSE b

\* the list emits a batch: debounceTime holds it and restarts its timer
snapshotChanges(batch) ==
    /\ Len(srcEvents) < MaxEvents
    /\ ~(debounced # <<>> /\ sinceLast >= DebounceMs)
    /\ srcEvents' = Append(srcEvents, batch)
    /\ burst' = IF debounced = <<>> THEN <<batch>> ELSE Append(burst, batch)
    /\ debounced' = <<batch>>
    /\ sinceLast' = 0
    /\ UNCHANGED <<settingsVars, batchVars, prevEmitted, delivered>>

\* time passes, up to the moment the held value is due
Tick ==
    /\ sinceLast < DebounceMs
    /\ sinceLast' = Min(sinceLast + TickMs, DebounceMs)
    /\ UNCHANGED <<settingsVars, batchVars, srcEvents, burst, debounced, prevEmitted,
                   delivered>>

\* the timer of debounceTime fires: the held value goes through distinctUntilChanged
debounceFire ==
    /\ DebounceDue
    /\ debounced' = <<>>
    /\ IF prevEmitted # <<>> /\ SameSerialized(prevEmitted[1], debounced[1])
       THEN UNCHANGED <<prevEmitted, delivered>>
       ELSE /\ prevEmitted' = debounced
            /\ delivered' = Append(delivered, debounced[1])
    /\ UNCHANGED <<settingsVars, batchVars, srcEvents, burst, sinceLast>>

NextStream ==
    \/ \E b \in Batches : snapshotChanges(b)
    \/ Tick
    \/ debounceFire

SpecStream == Init /\ [][NextStream]_vars

-----------------------------------------------------------------------------
(* Properties of the settings and layout surfaces, checked under Spec *)

SaveRequests == BagToSet(saves)
LoadRequests == BagToSet(loads)

NonEmptyLists(values) ==
    {l \in UNION {[1..n -> values] : n \in 1..MaxLen} : TRUE}

\* C2: when the store rejects the write of saveCategories or saveTypes, no step of
\* that save (issuing it, the store's rejection, the rejection handler) changes the
\* committed snapshots, the working copies or the shared canonical lists, none fires
\* a categories event, and the rejection handler leaves the taxonomy's is-saving
\* flag false and the other taxonomy's flag as it was.
C2_SaveFailureKeepsState ==
    [][/\ \A w \in SaveRequests :
            (w.phase = "err" /\ saves' = saves (-) One(w)) =>
                /\ UNCHANGED <<signalVars, dataVars, eventVars, store, loads>>
                /\ IF w.op = "saveCategories"
                   THEN isUpdatingCategories' = FALSE /\ UNCHANGED isUpdatingSourceTypes
                   ELSE isUpdatingSourceTypes' = FALSE /\ UNCHANGED isUpdatingCategories
       /\ \A w \in SaveRequests :
            (w.phase = "sent"
             /\ saves' = (saves (-) One(w)) (+) One([w EXCEPT !.phase = "err"])) =>
                UNCHANGED <<signalVars, dataVars, eventVars, store, updatingVars>>
       /\ (\E w \in BagToSet(saves') : w.phase = "sent" /\ saves' = saves (+) One(w)) =>
                UNCHANGED <<signalVars, dataVars, eventVars, store>>
      ]_vars

\* a rejected categories save has been handled and the unsaved edit is still there
C2_Witness ==
    /\ snack = "write rejected"
    /\ saves = EmptyBag
    /\ ~isUpdatingCategories
    /\ categoriesSignal # copyCategoriesSignal
    /\ Len(categoriesSignal) > 0

\* C3: saveCategories or saveTypes called while no user id is available issues no
\* store call, leaves committed and working state (and the store) unchanged, and
\* ends with that taxonomy's is-saving flag false.
C3_MissingUserSaveIsLocal ==
    [][/\ saveCategoriesMissingUser =>
            /\ saves' = saves /\ loads' = loads /\ store' = store
            /\ UNCHANGED <<signalVars, dataVars, eventVars>>
            /\ isUpdatingCategories' = FALSE
       /\ saveTypesMissingUser =>
            /\ saves' = saves /\ loads' = loads /\ store' = store
            /\ UNCHANGED <<signalVars, dataVars, eventVars>>
            /\ isUpdatingSourceTypes' = FALSE
      ]_vars

\* a save was refused for want of a user id while the working copy held an edit
C3_Witness ==
    /\ snack = "No user id found."
    /\ CurrentUid = NoUser
    /\ Len(categoriesSignal) > 0
    /\ saves = EmptyBag
    /\ ~isUpdatingCategories /\ ~isUpdatingSourceTypes

\* C4: when saveCategories succeeds, the committed snapshot and the shared canonical
\* categories equal the list this call wrote to users/{uid}/categories.
C4_CommitEqualsWrittenList ==
    [][\A w \in SaveRequests :
            (w.op = "saveCategories" /\ w.phase = "ok" /\ saves' = saves (-) One(w)) =>
                /\ OptionValues(copyCategoriesSignal') = w.list
                /\ dataCategories' = w.list
      ]_vars

\* C5: round trip. A store-accepted save of a non-empty list L leaves exactly the
\* array L at users/{uid}/categories; a read hands the handler what the store holds;
\* and the load handler of either surface given that array yields categories equal
\* to L in order and content.
C5_RoundTrip ==
    [][/\ \A w \in SaveRequests :
            (w.op = "saveCategories" /\ w.phase = "sent" /\ w.list # <<>>
             /\ saves' = (saves (-) One(w)) (+) One([w EXCEPT !.phase = "ok"])) =>
                store'[w.uid].categories = Arr(StrItems(w.list))
       /\ \A r \in LoadRequests :
            (r.phase = "sent" /\ BagIn(r, loads) /\ ~BagIn(r, loads')
             /\ \E q \in BagToSet(loads') : q.phase = "ok" /\ loads' = (loads (-) One(r)) (+) One(q)) =>
                \A q \in BagToSet(loads') :
                    (q.phase = "ok" /\ loads' = (loads (-) One(r)) (+) One(q)) =>
                        q.snap = store[r.uid]
       /\ \A r \in LoadRequests :
            (r.phase = "ok" /\ loads' = loads (-) One(r)) =>
                \A L \in NonEmptyLists(CategoryValues) :
                    r.snap.categories = Arr(StrItems(L)) =>
                        /\ dataCategories' = L
                        /\ r.surface = "settings" =>
                            /\ OptionValues(categoriesSignal') = L
                            /\ OptionValues(copyCategoriesSignal') = L
      ]_vars

\* u2 had no stored categories: the list Travel was saved, read back and committed
C5_Witness ==
    /\ user = "u2" /\ userId = "u2"
    /\ budget = MaxCalls - 4
    /\ categoriesAdded = 2
    /\ saves = EmptyBag /\ loads = EmptyBag
    /\ store["u2"].categories = Arr(<<Str("Travel")>>)
    /\ OptionValues(categoriesSignal) = <<"Travel">>
    /\ OptionValues(copyCategoriesSignal) = <<"Travel">>
    /\ dataCategories = <<"Travel">>

\* C6: while nobody is signed in, the shared canonical categories, source types,
\* imported-files list and expense collection hold nothing but their cleared values.
C6_NoUserDataAfterSignOut ==
    user = NoUser =>
        /\ dataCategories \in {<<>>, defaultExpenseCategories}
        /\ dataSources \in {<<>>, defaultExpenseTypes}
        /\ dataFiles = <<>>
        /\ dataExpenses = <<>>

\* C9: a save is issued whenever a user id is available, whatever else is in flight,
\* and every set the store accepts for saveCategories replaces the whole value at
\* users/{uid}/categories by that write's list, so the write accepted last decides it.
C9_LastWriteWins ==
    [][/\ \A w \in SaveRequests :
            (w.op = "saveCategories" /\ w.phase = "sent"
             /\ saves' = (saves (-) One(w)) (+) One([w EXCEPT !.phase = "ok"])) =>
                store'[w.uid].categories =
                    (IF w.list = <<>> THEN Absent ELSE Arr(StrItems(w.list)))
       /\ saveCategoriesIssue =>
            \E w \in BagToSet(saves') :
                /\ w.op = "saveCategories" /\ w.phase = "sent"
                /\ w.uid = CurrentUid /\ w.list = OptionValues(categoriesSignal)
                /\ saves' = saves (+) One(w)
       /\ (CurrentUid # NoUser /\ budget > 0) => ENABLED saveCategoriesIssue
      ]_vars

\* two saves of different lists overlapped, the store accepted both, and it holds
\* the list of the one issued first
C9_Witness ==
    \E w1, w2 \in SaveRequests :
        /\ w1.op = "saveCategories" /\ w2.op = "saveCategories"
        /\ w1.uid = w2.uid
        /\ w1.phase = "ok" /\ w2.phase = "ok"
        /\ Len(w1.list) < Len(w2.list)
        /\ store[w1.uid].categories = Arr(StrItems(w1.list))

\* C10 as stated: when the read of a load fails, canonical state and working copies
\* are unchanged, no new read is issued, and both loading flags are false afterwards.
C10_LoadFailureClearsFlags ==
    [][\A r \in LoadRequests :
            (r.phase = "err" /\ BagIn(r, loads) /\ CopiesIn(r, loads') < CopiesIn(r, loads)) =>
                /\ loads' = loads (-) One(r)
                /\ UNCHANGED <<signalVars, dataVars, store, saves>>
                /\ isLoadingUserInformation' = FALSE
                /\ isLoadingUserCategories' = FALSE
      ]_vars

\* C10 amended: when the read of a load fails, canonical state and working copies
\* are unchanged and no new read is issued; a failed load of the settings surface
\* leaves both loading flags false, one of the layout surface leaves them as they were.
C10_LoadFailureKeepsState ==
    [][\A r \in LoadRequests :
            (r.phase = "err" /\ BagIn(r, loads) /\ CopiesIn(r, loads') < CopiesIn(r, loads)) =>
                /\ loads' = loads (-) One(r)
                /\ UNCHANGED <<signalVars, dataVars, store, saves>>
                /\ IF r.surface = "settings"
                   THEN isLoadingUserInformation' = FALSE /\ isLoadingUserCategories' = FALSE
                   ELSE UNCHANGED loadingVars
      ]_vars

\* a settings load failed after an earlier load had committed a list
C10_Witness ==
    /\ snack = "Error! read rejected."
    /\ loads = EmptyBag
    /\ ~isLoadingUserInformation /\ ~isLoadingUserCategories
    /\ Len(copyCategoriesSignal) > 0
    /\ Len(dataCategories) > 0

-----------------------------------------------------------------------------
(* Properties of the expense writes, checked under SpecBatch *)

WriteRequests == BagToSet(writes)

\* C1: batchUpdateExpenses(uid, updates) sends one request carrying every listed
\* key, and the store changes only by taking one request and writing all of its
\* paths in that one step: after the step that applies a batch, every key k of
\* updates holds updates[k] (absent when it is null) and every other record is as it
\* was, so no step applies a proper non-empty part of a batch.
C1_BatchIsAtomic ==
    [][/\ (\E q \in BagToSet(writes') :
                q.op = "batchUpdateExpenses" /\ CopiesIn(q, writes') > CopiesIn(q, writes)) =>
            \E q \in BagToSet(writes') :
                /\ writes' = writes (+) One(q)
                /\ DOMAIN q.scoped = {<<q.uid, k>> : k \in DOMAIN q.updates}
                /\ \A k \in DOMAIN q.updates : q.scoped[<<q.uid, k>>] = q.updates[k]
       /\ expenses' # expenses =>
            \E req \in WriteRequests :
                /\ writes' = writes (-) One(req)
                /\ \A u \in Users : \A k \in StoreKeys :
                      expenses'[u][k] =
                        IF u = req.uid /\ k \in DOMAIN req.updates
                        THEN req.updates[k] ELSE expenses[u][k]
       /\ \A req \in WriteRequests :
            (req.op = "batchUpdateExpenses" /\ writes' = writes (-) One(req)) =>
                \/ expenses' = expenses
                \/ \A k \in DOMAIN req.updates : expenses'[req.uid][k] = req.updates[k]
      ]_vars

\* one call batchUpdateExpenses("u1", {k1: E1, k2: null}) has been applied to a store
\* that held k2 and not k1
C1_Witness ==
    /\ batchBudget = MaxBatchCalls - 1
    /\ writes = EmptyBag
    /\ expenses["u1"]["k1"] = "E1"
    /\ expenses["u1"]["k2"] = Null

\* C14: when the legacy form of batchUpdateExpenses (no user id) learns that no
\* session is authenticated it fails with "Not signed in" and sends no write to the
\* store; when a session is authenticated it sends one write whose every path lies
\* under users/{currentUid}/expenses/.
C14_LegacyBatchNeedsSession ==
    [][\A updates \in BagToSet(awaiting) :
          awaiting' = awaiting (-) One(updates) =>
             /\ expenses' = expenses
             /\ authUser = NoUser =>
                   /\ batchError' = "Not signed in"
                   /\ writes' = writes
             /\ authUser # NoUser =>
                   /\ batchError' = batchError
                   /\ \E q \in BagToSet(writes') :
                         /\ writes' = writes (+) One(q)
                         /\ \A path \in DOMAIN q.scoped : path[1] = authUser
                         /\ {path[2] : path \in DOMAIN q.scoped} = DOMAIN updates
                         /\ \A k \in DOMAIN updates :
                               q.scoped[<<authUser, k>>] = updates[k]]_vars

\* one legacy call was rejected while nobody was signed in, and another one,
\* resumed for the signed-in u2, has its write under users/u2/expenses pending
C14_Witness ==
    /\ batchBudget = MaxBatchCalls - 2
    /\ awaiting = EmptyBag
    /\ batchError = "Not signed in"
    /\ expenses = InitialExpenses
    /\ authUser = "u2"
    /\ \E q \in WriteRequests :
          /\ writes = One(q)
          /\ q.op = "batchUpdateExpenses"
          /\ DOMAIN q.scoped = {<<"u2", "k1">>, <<"u2", "k2">>}

\* keys that hold a record or are named by a write in flight
KeysInUse ==
    {k \in StoreKeys : \E u \in Users : expenses[u][k] # Null}
        \cup UNION {DOMAIN q.updates : q \in WriteRequests}

\* C15: batchPushExpensesWithBatch(expenses, uid) sends one write that holds one
\* record per input expense, each under its own key below users/{uid}/expenses, a
\* key that is new (no record and no write in flight uses it), and the store shows
\* all of these records in the one step that applies the write.
C15_PushManyIsOnePerExpense ==
    [][/\ batchBudget' # batchBudget =>
          \A u \in Users : \A exps \in PushInputs :
             (pushed' = pushed + Len(exps) /\ batchPushExpensesWithBatchCall(exps, u)) =>
                \E q \in BagToSet(writes') :
                   /\ writes' = writes (+) One(q)
                   /\ expenses' = expenses
                   /\ DOMAIN q.scoped = {<<u, k>> : k \in DOMAIN q.updates}
                   /\ DOMAIN q.updates \cap (Keys \cup KeysInUse) = {}
                   /\ Cardinality(DOMAIN q.updates) = Len(exps)
                   /\ \A e \in Expenses :
                         Cardinality({k \in DOMAIN q.updates : q.scoped[<<u, k>>] = e})
                            = Cardinality({i \in 1..Len(exps) : exps[i] = e})
       /\ expenses' # expenses =>
          \A q \in WriteRequests :
             (/\ q.op = "batchPushExpensesWithBatch"
              /\ \E k \in DOMAIN q.updates : expenses'[q.uid][k] # expenses[q.uid][k]) =>
                 /\ writes' = writes (-) One(q)
                 /\ \A k \in DOMAIN q.updates : expenses'[q.uid][k] = q.updates[k]
                 /\ \A u \in Users : \A k \in StoreKeys :
                       (u # q.uid \/ k \notin DOMAIN q.updates) =>
                           expenses'[u][k] = expenses[u][k]]_vars

\* one call pushed the same expense twice for u1: two records under two new keys
C15_Witness ==
    /\ batchBudget = MaxBatchCalls - 1
    /\ writes = EmptyBag
    /\ pushed = 2
    /\ Cardinality({k \in StoreKeys \ Keys : expenses["u1"][k] = "E1"}) = 2
    /\ \A k \in Keys : expenses["u1"][k] = InitialExpenses["u1"][k]

-----------------------------------------------------------------------------
(* Properties of the expense change stream, checked under SpecStream *)

Last(seq) == seq[Len(seq)]

\* the step in which the timer of debounceTime fires and the held value is released
FireStep == debounced # <<>> /\ debounced' = <<>>

\* C7 as stated: a burst of two events with identical serialized content produces
\* exactly one emission when its quiet window ends.
C7_IdenticalPairEmitsOnce ==
    [][(/\ FireStep
        /\ Len(burst) = 2
        /\ Stringify(burst[1]) = Stringify(burst[2]))
            => Len(delivered') = Len(delivered) + 1
      ]_vars

\* C7 amended: the subscriber receives a batch only when the timer of a burst fires,
\* a full quiet window after the burst's last event, at most one batch per burst, and
\* that batch is the last event of the burst; the firing delivers exactly one batch
\* when nothing was delivered before or the last delivered batch differs from it, and
\* none when the last delivered batch is identical to it.
C7_BurstEmitsLastAtMostOnce ==
    [][/\ delivered' # delivered =>
            /\ FireStep
            /\ sinceLast >= DebounceMs
            /\ delivered' = Append(delivered, Last(burst))
       /\ FireStep =>
            /\ Last(burst) = Last(srcEvents)
            /\ burst' = burst
            /\ IF delivered # <<>> /\ Last(delivered) = Last(burst)
               THEN delivered' = delivered
               ELSE delivered' = Append(delivered, Last(burst))
      ]_vars

\* a burst of two identical events has ended and was delivered once
C7_Witness ==
    /\ Len(burst) = 2
    /\ burst[1] = burst[2]
    /\ burst[1] # <<>>
    /\ debounced = <<>>
    /\ delivered = <<burst[2]>>

\* C8: once the underlying stream has been silent for a full quiet window and the
\* timer of that window has run, the batch most recently delivered to the subscriber
\* equals the last event the stream produced.
C8_FinalStateDelivered ==
    (srcEvents # <<>> /\ sinceLast >= DebounceMs /\ debounced = <<>>) =>
        /\ delivered # <<>>
        /\ Last(delivered) = Last(srcEvents)

\* two bursts have ended; the second ended on a batch with the keys of the first
\* one's but other content, and it was delivered
C8_Witness ==
    /\ Len(srcEvents) >= 3
    /\ sinceLast >= DebounceMs /\ debounced = <<>>
    /\ Len(delivered) = 2
    /\ delivered[1] = <<Action("value", "k1", "E1")>>
    /\ delivered[2] = <<Action("value", "k1", "E2")>>

RECURSIVE IsSubsequence(_, _)
IsSubsequence(sub, seq) ==
    IF sub = <<>> THEN TRUE
    ELSE IF seq = <<>> THEN FALSE
    ELSE IF Head(sub) = Head(seq) THEN IsSubsequence(Tail(sub), Tail(seq))
    ELSE IsSubsequence(sub, Tail(seq))

\* C20: the batches the subscriber received are, in the same order, a
\* subsequence of the events of snapshotChanges(), and no two batches received
\* one after the other are structurally identical.
C20_DeliveredIsDistinctSubsequence ==
    /\ IsSubsequence(delivered, srcEvents)
    /\ \A i \in 1..(Len(delivered) - 1) : delivered[i] # delivered[i + 1]

\* four events in four quiet windows, the second and the fourth repeating the one
\* before them: two batches were delivered
C20_Witness ==
    /\ debounced = <<>>
    /\ srcEvents = << <<Action("value", "k1", "E1")>>, <<Action("value", "k1", "E1")>>,
                      <<Action("value", "k1", "E2")>>, <<Action("value", "k1", "E2")>> >>
    /\ delivered = << <<Action("value", "k1", "E1")>>, <<Action("value", "k1", "E2")>> >>

-----------------------------------------------------------------------------
(* Loads: defaults, normalization, idempotence *)

\* a load settles with the value read (its then-handler runs)
LoadSettles(r) == r.phase = "ok" /\ loads' = loads (-) One(r)

\* the stored value is missing or holds no non-empty string
StoredEmpty(raw) ==
    \/ raw.kind \notin {"array", "object"}
    \/ \A i \in 1..Len(raw.items) : raw.items[i].type # "string" \/ raw.items[i].val = ""

DefaultEntries(defaults) ==
    [i \in 1..Len(defaults) |-> [value |-> defaults[i], removable |-> FALSE]]

\* C11: a load for a user whose stored categories (source types) are absent or
\* normalize to empty yields exactly the default list of that taxonomy, every
\* entry non-removable; an absent imported-files list yields the empty list.
C11_DefaultsOnEmpty ==
    [][\A r \in BagToSet(loads) : LoadSettles(r) =>
          /\ (r.surface = "settings" /\ StoredEmpty(r.snap.categories)) =>
                /\ categoriesSignal' = DefaultEntries(defaultExpenseCategories)
                /\ copyCategoriesSignal' = DefaultEntries(defaultExpenseCategories)
                /\ dataCategories' = defaultExpenseCategories
          /\ (r.surface = "settings" /\ StoredEmpty(r.snap.types)) =>
                /\ sourceTypeSignal' = DefaultEntries(defaultExpenseTypes)
                /\ sourceTypeSignalOriginal' = DefaultEntries(defaultExpenseTypes)
          /\ (r.surface = "layout" /\ StoredEmpty(r.snap.categories)) =>
                dataCategories' = defaultExpenseCategories
          /\ (r.surface = "layout" /\ StoredEmpty(r.snap.types)) =>
                dataSources' = defaultExpenseTypes
          /\ (r.surface = "layout" /\ r.snap.filesImported.kind = "absent") =>
                dataFiles' = <<>>]_vars

\* both surfaces have loaded a user whose categories are a scalar, whose source
\* types and imported files are absent
C11_Witness ==
    /\ loads = EmptyBag /\ userId = "u1"
    /\ store["u1"].categories = Scalar
    /\ store["u1"].types = Absent
    /\ store["u1"].filesImported = Absent
    /\ categoriesSignal = DefaultEntries(defaultExpenseCategories)
    /\ sourceTypeSignal = DefaultEntries(defaultExpenseTypes)
    /\ dataCategories = defaultExpenseCategories
    /\ dataSources = defaultExpenseTypes
    /\ dataFiles = <<>>
    /\ categoriesAdded = 1
    /\ budget = MaxLoads - 2

RECURSIVE NonEmptyStringsOf(_)
NonEmptyStringsOf(items) ==
    IF items = <<>> THEN <<>>
    ELSE LET h == Head(items)
         IN  (IF h.type = "string" /\ h.val # "" THEN <<h.val>> ELSE <<>>)
                 \o NonEmptyStringsOf(Tail(items))

StoredFields == {"categories", "types", "filesImported"}

\* C12: for every raw value (absent, scalar, sequence, mapping, elements of any
\* type) both normalizers return a list of non-empty strings: the non-empty
\* string elements of a sequence or mapping in iteration order, else the empty list.
C12_NormalizeTotal ==
    \A u \in Users : \A f \in StoredFields :
        LET raw == store[u][f]
            expected == IF raw.kind \in {"array", "object"}
                        THEN NonEmptyStringsOf(raw.items) ELSE <<>>
            strings == {e.val : e \in {x \in Range(raw.items) : x.type = "string"}} \ {""}
        IN  \A out \in {normalizeStringList(raw), layoutNormalizeStringList(raw)} :
                /\ out = expected
                /\ \A i \in 1..Len(out) : out[i] \in strings

\* a mapping with a number, and a mapping with an empty string, have been loaded
C12_Witness ==
    /\ loads = EmptyBag
    /\ store["u1"].categories = Obj(<<Num, Str("Travel")>>)
    /\ store["u1"].filesImported = Obj(<<Str("f1"), Str("")>>)
    /\ dataCategories = <<"Travel">>
    /\ dataFiles = <<"f1">>

\* the state the settings load leaves for a snapshot
SettingsLoaded(snap) ==
    LET categoriesArr == OrDefault(normalizeStringList(snap.categories),
                                   defaultExpenseCategories)
        sourceTypes == OrDefault(normalizeStringList(snap.types), defaultExpenseTypes)
    IN  /\ categoriesSignal = CategoryOptions(categoriesArr)
        /\ copyCategoriesSignal = CategoryOptions(categoriesArr)
        /\ dataCategories = categoriesArr
        /\ sourceTypeSignal = SourceTypeOptions(sourceTypes)
        /\ sourceTypeSignalOriginal = SourceTypeOptions(sourceTypes)

\* the state the layout load leaves for a snapshot
LayoutLoaded(snap) ==
    /\ dataCategories = OrDefault(layoutNormalizeStringList(snap.categories),
                                  defaultExpenseCategories)
    /\ dataSources = OrDefault(layoutNormalizeStringList(snap.types), defaultExpenseTypes)
    /\ dataFiles = layoutNormalizeStringList(snap.filesImported)

\* C13: a load leaves the lists it sets as a function of the value read alone, and
\* a load that reads the value the state was already loaded from changes nothing
\* in the canonical state: the state after a second load is the state after the first.
C13_LoadIsIdempotent ==
    [][\A r \in BagToSet(loads) : LoadSettles(r) =>
          /\ r.surface = "settings" =>
                /\ SettingsLoaded(r.snap)'
                /\ SettingsLoaded(r.snap) => UNCHANGED <<signalVars, dataVars>>
          /\ r.surface = "layout" =>
                /\ LayoutLoaded(r.snap)'
                /\ LayoutLoaded(r.snap) => UNCHANGED <<signalVars, dataVars>>]_vars

\* the settings surface has loaded the same stored value twice
C13_Witness ==
    /\ loads = EmptyBag /\ budget = 0 /\ snack = ""
    /\ categoriesAdded = 2
    /\ store["u1"].categories = Arr(<<Str("Travel"), Str("")>>)
    /\ SettingsLoaded(store["u1"])

-----------------------------------------------------------------------------
(* Events, quiescent consistency and the is-saving flags, checked under Spec *)

\* a step of a saveTypes call: it is refused for the missing user id, or its
\* request is sent, answered by the store, or handled
SaveTypesStep ==
    \/ saveTypesMissingUser
    \/ \E w \in BagToSet(saves) \cup BagToSet(saves') :
          w.op = "saveTypes" /\ CopiesIn(w, saves') # CopiesIn(w, saves)

\* C16: no step of saveTypes (sent, written, rejected by the store, handled on
\* success or failure, or refused for a missing user id) fires an event on the
\* categories channel.
C16_SaveTypesFiresNoCategoriesEvent ==
    [][SaveTypesStep => UNCHANGED <<categoriesAdded, categoriesSeen>>]_vars

\* a saveTypes has succeeded and no categories event was ever fired
C16_Witness ==
    /\ saves = EmptyBag
    /\ snack = "Expense Source Types saved!"
    /\ dataSources = <<"Card">>
    /\ store["u1"].types = Arr(<<Str("Card")>>)
    /\ categoriesAdded = 0

\* C17 as stated: the success handler of saveCategories fires exactly one event,
\* and the subscriber that reads the canonical categories on receiving it sees
\* the list this save wrote.
C17_SubscriberSeesSavedList ==
    [][\A w \in SaveRequests :
          (w.op = "saveCategories" /\ w.phase = "ok" /\ saves' = saves (-) One(w)) =>
             /\ categoriesAdded' = categoriesAdded + 1
             /\ categoriesSeen' = dataCategories'
             /\ categoriesSeen' = w.list]_vars

\* the value a load of the stored categories yields
StoredCategories(uid) ==
    LET raw == store[uid].categories
        list == IF raw.kind \in {"array", "object"}
                THEN NonEmptyStringsOf(raw.items) ELSE <<>>
    IN  IF list = <<>> THEN defaultExpenseCategories ELSE list

\* C18 as stated: when nothing is in flight for the signed-in user and a load or a
\* save has succeeded, the shared canonical categories are the default-fallback
\* of the normalized value stored at users/{uid}/categories.
C18_QuiescentCategoriesMatchStore ==
    (/\ saves = EmptyBag /\ loads = EmptyBag
     /\ (userId = user \/ categoriesAdded > 0)) =>
        dataCategories = StoredCategories(user)

\* C19 as stated: while a save of a taxonomy is in flight, the is-saving flag of
\* that taxonomy is true.
C19_FlagCoversPendingSaves ==
    /\ (\E w \in SaveRequests : w.op = "saveCategories") => isUpdatingCategories
    /\ (\E w \in SaveRequests : w.op = "saveTypes") => isUpdatingSourceTypes

\* C21: every entry of the committed category list (source-type list) has
\* removable = FALSE exactly when its value is, letter for letter, one of the
\* default categories (default source types).
C21_RemovableIffNotDefault ==
    /\ \A i \in 1..Len(copyCategoriesSignal) :
          (copyCategoriesSignal[i].removable = FALSE) <=>
              (\E d \in 1..Len(defaultExpenseCategories) :
                   defaultExpenseCategories[d] = copyCategoriesSignal[i].value)
    /\ \A i \in 1..Len(sourceTypeSignalOriginal) :
          (sourceTypeSignalOriginal[i].removable = FALSE) <=>
              (\E d \in 1..Len(defaultExpenseTypes) :
                   defaultExpenseTypes[d] = sourceTypeSignalOriginal[i].value)

\* the settings surface has loaded a default and a custom category, and a source
\* type that differs from a default only in case next to that default
C21_Witness ==
    /\ loads = EmptyBag /\ categoriesAdded = 1
    /\ copyCategoriesSignal = <<[value |-> "Food", removable |-> FALSE],
                                [value |-> "Travel", removable |-> TRUE]>>
    /\ sourceTypeSignalOriginal = <<[value |-> "cash", removable |-> TRUE],
                                    [value |-> "Cash", removable |-> FALSE]>>

====
